---- MODULE Spec2Model ----
(***************************************************************************)
(* The categorical scatter-plot example of pygmt                           *)
(* (examples/gallery/plot/points-categorical.py) and the library calls it  *)
(* makes: pygmt.info, pygmt.Figure, Figure.basemap, pygmt.makecpt,         *)
(* Figure.plot, Figure.show.                                               *)
(*                                                                         *)
(* Lengths are in tenths of a millimetre (32.1 mm is 321) and a spacing is *)
(* in the same unit (3 mm is 30), so that the rounding of pygmt.info is    *)
(* exact integer arithmetic.                                               *)
(***************************************************************************)
EXTENDS Integers, Sequences, FiniteSets

\* pc          the statement the script is at, or the kind of client in control
\* df          the table read from the penguins CSV
\* region      the bounds pygmt.info returned
\* fig         the figure session: its state and its log of drawing commands
\* currentCpt  the current colormap of the process, set by makecpt
\* artifact    what show has emitted
\* lastCall    the last call made, with its arguments
\* lastErr     how that call ended: "ok" or the error raised
\* calls       every call made so far, in order, with who made it
\* rpc, rfig   with two runs in one process: each run's statement and session
VARIABLES pc, df, region, fig, currentCpt, artifact, lastCall, lastErr, calls,
          rpc, rfig

vars == <<pc, df, region, fig, currentCpt, artifact, lastCall, lastErr, calls,
          rpc, rfig>>

(* ------------------------------ bounds --------------------------------- *)
\* rows of a loaded table
MaxRows == 3
\* library calls of one interactive client
MaxCalls == 4
\* length of a vector handed to plot by an interactive client
MaxLen == 1
\* rows of a table handed to info on its own
InfoRows == 2
\* values of those tables: -MaxVal .. MaxVal
MaxVal == 1
\* spacings handed to info on its own: 1 .. MaxSpacing
MaxSpacing == 3
\* series handed to makecpt on its own: start, stop in 0 .. MaxStop
MaxStop == 4
\* steps of those series: 0 .. MaxStep
MaxStep == 2

(* ------------------------------ helpers -------------------------------- *)
Range(s) == {s[i] : i \in 1..Len(s)}

SeqsUpTo(S, n) == UNION {[1..k -> S] : k \in 0..n}

Min(S) == CHOOSE m \in S : \A v \in S : m <= v

Max(S) == CHOOSE m \in S : \A v \in S : v <= m

Column(rows, c) == [i \in 1..Len(rows) |-> rows[i][c]]

(* ------------------------- values that stand for "none" ---------------- *)
NoData == [cols |-> {}, rows |-> <<>>]

NoRegion == <<>>

NoFig == [state |-> "None", log |-> <<>>]

NoCpt == [cmap |-> "", series |-> <<>>, bins |-> <<>>, id |-> 0]

NoArtifact == [emitted |-> FALSE, content |-> <<>>]

NoCall == [op |-> "", args |-> <<>>]

(* ------------------------------ pygmt.info ----------------------------- *)
\* the largest multiple of inc that is <= v
RoundDown(v, inc) == (v \div inc) * inc

\* the smallest multiple of inc that is >= v
RoundUp(v, inc) == -((-v) \div inc) * inc

\* info(table, per_column=True, spacing=(sx, sy)) of a table of <<x, y>> rows
Info(table, spacing) ==
    IF table = <<>>
    THEN [err |-> "data-error", value |-> NoRegion]
    ELSE LET xs == Range(Column(table, 1))
             ys == Range(Column(table, 2))
         IN [err |-> "ok",
             value |-> << RoundDown(Min(xs), spacing[1]), RoundUp(Max(xs), spacing[1]),
                          RoundDown(Min(ys), spacing[2]), RoundUp(Max(ys), spacing[2]) >>]

(* ------------------------------ pygmt.makecpt -------------------------- *)
\* the slices [lo, hi) that a series (start, stop, step) cuts the range into
RECURSIVE Slices(_, _, _)
Slices(start, stop, step) ==
    IF start >= stop
    THEN <<>>
    ELSE << [lo |-> start, hi |-> IF start + step < stop THEN start + step ELSE stop] >>
         \o Slices(start + step, stop, step)

\* makecpt(cmap, color_model, series); id names the colormap object it builds
MakeCpt(cmap, series, id) ==
    IF series[2] <= series[1] \/ series[3] <= 0
    THEN [err |-> "invalid-range", value |-> NoCpt]
    ELSE [err |-> "ok",
          value |-> [cmap |-> cmap, series |-> series,
                     bins |-> Slices(series[1], series[2], series[3]), id |-> id]]

\* the indices a colormap has a colour for
CptIndices(cpt) == 0 .. (Len(cpt.bins) - 1)

(* ------------------------------ pygmt.Figure --------------------------- *)
NewFigure == [state |-> "Created", log |-> <<>>]

\* a session that still draws after show
Accepting_AfterShow(f) == f.state \in {"Created", "Accumulating", "Finalized"}

\* a session takes drawing operations until show/save has finalized it
Accepting(f) == f.state \in {"Created", "Accumulating"}

Draw(f, entry) == [state |-> "Accumulating", log |-> Append(f.log, entry)]

\* Figure.basemap(region, projection, frame)
FigBasemap(f, reg) ==
    IF ~Accepting(f)
    THEN [err |-> "session-finalized", value |-> f]
    ELSE [err |-> "ok",
          value |-> Draw(f, [op |-> "basemap", region |-> reg, n |-> 0,
                             color |-> <<>>, cmap |-> FALSE, cpt |-> NoCpt])]

\* a plot that draws the symbols it has all values for, then reports the mismatch
FigPlot_Partial(f, x, y, sizes, color, cmap, cpt) ==
    IF ~Accepting(f)
    THEN [err |-> "session-finalized", value |-> f]
    ELSE [err |-> IF Len(y) = Len(x) /\ Len(sizes) = Len(x) /\ Len(color) = Len(x)
                  THEN "ok" ELSE "shape-mismatch",
          value |-> Draw(f, [op |-> "plot", region |-> NoRegion,
                             n |-> Min({Len(x), Len(y), Len(sizes), Len(color)}),
                             color |-> color, cmap |-> cmap,
                             cpt |-> IF cmap THEN cpt ELSE NoCpt])]

\* Figure.plot(x, y, sizes, color, cmap, ...); cpt is the current colormap
FigPlot(f, x, y, sizes, color, cmap, cpt) ==
    IF ~(Len(y) = Len(x) /\ Len(sizes) = Len(x) /\ Len(color) = Len(x))
    THEN [err |-> "shape-mismatch", value |-> f]
    ELSE IF ~Accepting(f)
    THEN [err |-> "session-finalized", value |-> f]
    ELSE [err |-> "ok",
          value |-> Draw(f, [op |-> "plot", region |-> NoRegion, n |-> Len(x),
                             color |-> color, cmap |-> cmap,
                             cpt |-> IF cmap THEN cpt ELSE NoCpt])]

\* Figure.show(): the session after it, and what it emits
FigShow(f) ==
    IF ~Accepting(f)
    THEN [err |-> "session-finalized", value |-> f, out |-> NoArtifact]
    ELSE IF f.log = <<>>
    THEN [err |-> "empty-canvas", value |-> f, out |-> NoArtifact]
    ELSE [err |-> "ok",
          value |-> [state |-> "Finalized", log |-> f.log],
          out |-> [emitted |-> TRUE, content |-> f.log]]

\* the session is destroyed once it has been flushed
FigClose(f) == [state |-> "Closed", log |-> f.log]

(* ------------------------------ pandas --------------------------------- *)
\* a missing value of a column (NaN)
NA == ""

\* the order in which astype("category") sorts the category labels
Lexicographic == <<"Adelie", "Chinstrap", "Gentoo", "Macaroni">>

Rank(label) == CHOOSE i \in 1..Len(Lexicographic) : Lexicographic[i] = label

\* Series.cat.categories: the distinct labels present, missing values aside
Categories(column) == Range(column) \ {NA}

\* codes counted from 1
CatCodes_FromOne(column) ==
    [i \in 1..Len(column) |->
        IF column[i] = NA
        THEN -1
        ELSE Cardinality({c \in Categories(column) : Rank(c) <= Rank(column[i])})]

\* Series.cat.codes: the position of a label among the sorted categories,
\* -1 for a missing value
CatCodes(column) ==
    [i \in 1..Len(column) |->
        IF column[i] = NA
        THEN -1
        ELSE Cardinality({c \in Categories(column) : Rank(c) < Rank(column[i])})]

(* ------------------------------ the script ----------------------------- *)
AllColumns == {"species", "bill_length_mm", "bill_depth_mm", "body_mass_g"}

\* rows a penguins table may hold: lengths in tenths of a mm, mass in g
Penguins ==
    { [species |-> "Adelie",    bill_length_mm |-> 321, bill_depth_mm |-> 155, body_mass_g |-> 3050],
      [species |-> "Gentoo",    bill_length_mm |-> 596, bill_depth_mm |-> 170, body_mass_g |-> 6050],
      [species |-> "Chinstrap", bill_length_mm |-> 465, bill_depth_mm |-> 179, body_mass_g |-> 3500],
      [species |-> "Gentoo",    bill_length_mm |-> 450, bill_depth_mm |-> 140, body_mass_g |-> 4400],
      [species |-> NA,          bill_length_mm |-> 391, bill_depth_mm |-> 187, body_mass_g |-> 3750],
      [species |-> "Macaroni",  bill_length_mm |-> 520, bill_depth_mm |-> 215, body_mass_g |-> 5000] }

\* what the download can give: nothing readable, or a table that may lack a column
Responses ==
    {NoData} \cup
    { [cols |-> c, rows |-> r] :
        c \in {AllColumns, AllColumns \ {"species"}, AllColumns \ {"bill_depth_mm"},
                AllColumns \ {"body_mass_g"}},
        r \in SeqsUpTo(Penguins, MaxRows) }

\* spacing=(3, 2), in tenths of a mm
Spacing == <<30, 20>>

\* a series for two categories
Series_Two == <<0, 2, 1>>

\* series=(0, 3, 1)
Series == <<0, 3, 1>>

\* sizes = body_mass_g * 7.5 * 10 ** -5, in units of 10 ** -6 cm
Sizes(mass) == [i \in 1..Len(mass) |-> mass[i] * 75]

\* show moved up, before anything is drawn
ScriptOrder_ShowFirst == <<"load", "region", "figure", "show", "basemap", "makecpt", "plot">>

\* the colormap built after the plot that needs it
ScriptOrder_PlotBeforeMakecpt == <<"load", "region", "figure", "basemap", "plot", "makecpt", "show">>

\* the symbols plotted before the frame
ScriptOrder_PlotBeforeBasemap == <<"load", "region", "figure", "makecpt", "plot", "basemap", "show">>

\* the statements of the script, top to bottom
ScriptOrder == <<"load", "region", "figure", "basemap", "makecpt", "plot", "show">>

Position(step) == CHOOSE i \in 1..Len(ScriptOrder) : ScriptOrder[i] = step

\* every statement wrapped so that an exception is swallowed
After_Swallow(step, ok) ==
    IF Position(step) = Len(ScriptOrder) THEN "exit"
    ELSE ScriptOrder[Position(step) + 1]

\* no statement is guarded: an exception ends the run, success goes on to the
\* next statement
After(step, ok) ==
    IF ~ok THEN "aborted"
    ELSE IF Position(step) = Len(ScriptOrder) THEN "exit"
    ELSE ScriptOrder[Position(step) + 1]

Called(op, ok) == Append(calls, [op |-> op, ok |-> ok, by |-> "main"])

Concurrent == <<rpc, rfig>>

\* df = pd.read_csv(url); df["species"] = df.species.astype("category")
LoadData ==
    /\ pc = "load"
    /\ \E resp \in Responses :
         LET ok == resp # NoData /\ "species" \in resp.cols
         IN /\ df' = IF ok THEN resp ELSE NoData
            /\ lastErr' = IF ok THEN "ok" ELSE "data-error"
            /\ calls' = Called("load", ok)
            /\ pc' = After("load", ok)
    /\ lastCall' = [op |-> "load", args |-> <<>>]
    /\ UNCHANGED <<region, fig, currentCpt, artifact, Concurrent>>

\* the columns taken in the other order
XYTable_Swapped(d) ==
    [i \in 1..Len(d.rows) |-> <<d.rows[i].bill_depth_mm, d.rows[i].bill_length_mm>>]

\* the table df[["bill_length_mm", "bill_depth_mm"]]
XYTable(d) ==
    [i \in 1..Len(d.rows) |-> <<d.rows[i].bill_length_mm, d.rows[i].bill_depth_mm>>]

\* region = pygmt.info(table=df[[...]], per_column=True, spacing=(3, 2))
DeriveRegion ==
    /\ pc = "region"
    /\ LET r == IF {"bill_length_mm", "bill_depth_mm"} \subseteq df.cols
                THEN Info(XYTable(df), Spacing)
                ELSE [err |-> "data-error", value |-> NoRegion]
       IN /\ region' = r.value
          /\ lastErr' = r.err
          /\ calls' = Called("region", r.err = "ok")
          /\ pc' = After("region", r.err = "ok")
    /\ lastCall' = IF {"bill_length_mm", "bill_depth_mm"} \subseteq df.cols
                   THEN [op |-> "info", args |-> <<XYTable(df), Spacing>>]
                   ELSE [op |-> "getitem", args |-> <<>>]
    /\ UNCHANGED <<df, fig, currentCpt, artifact, Concurrent>>

\* fig = pygmt.Figure()
CreateFigure ==
    /\ pc = "figure"
    /\ fig' = NewFigure
    /\ lastErr' = "ok"
    /\ calls' = Called("figure", TRUE)
    /\ pc' = After("figure", TRUE)
    /\ lastCall' = [op |-> "Figure", args |-> <<>>]
    /\ UNCHANGED <<df, region, currentCpt, artifact, Concurrent>>

\* fig.basemap(region=region, projection="X10c/10c", frame=[...])
Basemap ==
    /\ pc = "basemap"
    /\ LET r == FigBasemap(fig, region)
       IN /\ fig' = r.value
          /\ lastErr' = r.err
          /\ calls' = Called("basemap", r.err = "ok")
          /\ pc' = After("basemap", r.err = "ok")
    /\ lastCall' = [op |-> "basemap", args |-> <<region>>]
    /\ UNCHANGED <<df, region, currentCpt, artifact, Concurrent>>

\* pygmt.makecpt(cmap="inferno", color_model="+c", series=(0, 3, 1))
Makecpt ==
    /\ pc = "makecpt"
    /\ LET r == MakeCpt("inferno", Series, Len(calls) + 1)
       IN /\ currentCpt' = IF r.err = "ok" THEN r.value ELSE currentCpt
          /\ lastErr' = r.err
          /\ calls' = Called("makecpt", r.err = "ok")
          /\ pc' = After("makecpt", r.err = "ok")
    /\ lastCall' = [op |-> "makecpt", args |-> <<Series>>]
    /\ UNCHANGED <<df, region, fig, artifact, Concurrent>>

\* the vectors of fig.plot(x=..., y=..., sizes=..., color=...)
PlotArgs(d) ==
    << Column(d.rows, "bill_length_mm"), Column(d.rows, "bill_depth_mm"),
       Sizes(Column(d.rows, "body_mass_g")), CatCodes(Column(d.rows, "species")) >>

\* fig.plot(x, y, sizes, color, cmap=True, no_clip=True, style="cc", transparency=40)
Plot ==
    /\ pc = "plot"
    /\ LET a == PlotArgs(df)
           r == IF "body_mass_g" \in df.cols
                THEN FigPlot(fig, a[1], a[2], a[3], a[4], TRUE, currentCpt)
                ELSE [err |-> "data-error", value |-> fig]
       IN /\ fig' = r.value
          /\ lastErr' = r.err
          /\ calls' = Called("plot", r.err = "ok")
          /\ pc' = After("plot", r.err = "ok")
          /\ lastCall' = IF "body_mass_g" \in df.cols
                         THEN [op |-> "plot", args |-> a]
                         ELSE [op |-> "getattr", args |-> <<>>]
    /\ UNCHANGED <<df, region, currentCpt, artifact, Concurrent>>

\* fig.show()
Show ==
    /\ pc = "show"
    /\ LET r == FigShow(fig)
       IN /\ fig' = r.value
          /\ artifact' = IF r.err = "ok" THEN r.out ELSE artifact
          /\ lastErr' = r.err
          /\ calls' = Called("show", r.err = "ok")
          /\ pc' = After("show", r.err = "ok")
    /\ lastCall' = [op |-> "show", args |-> <<>>]
    /\ UNCHANGED <<df, region, currentCpt, Concurrent>>

\* the end of the file: the interpreter exits and the session goes with it
Exit ==
    /\ pc = "exit"
    /\ fig' = FigClose(fig)
    /\ pc' = "done"
    /\ UNCHANGED <<df, region, currentCpt, artifact, lastCall, lastErr, calls, Concurrent>>

ScriptInit ==
    /\ pc = ScriptOrder[1]
    /\ df = NoData
    /\ region = NoRegion
    /\ fig = NoFig
    /\ currentCpt = NoCpt
    /\ artifact = NoArtifact
    /\ lastCall = NoCall
    /\ lastErr = "ok"
    /\ calls = <<>>
    /\ rpc = <<>>
    /\ rfig = <<>>

ScriptNext ==
    \/ LoadData
    \/ DeriveRegion
    \/ CreateFigure
    \/ Basemap
    \/ Makecpt
    \/ Plot
    \/ Show
    \/ Exit

ScriptSpec == ScriptInit /\ [][ScriptNext]_vars

(* ------------------- a client calling the library directly ------------- *)
\* series a client hands to makecpt: the script's, a shorter one, an invalid one
ApiSeries == {Series, <<0, 2, 1>>, <<3, 0, 1>>}

\* vectors a client hands to plot
ApiVectors == SeqsUpTo({0}, MaxLen)

\* a region a client hands to basemap
ApiRegion == <<0, 10, 0, 10>>

ApiReady == pc = "api" /\ Len(calls) < MaxCalls

\* the client draws on one session
ApiFigure ==
    /\ ApiReady
    /\ fig = NoFig
    /\ fig' = NewFigure
    /\ lastErr' = "ok"
    /\ calls' = Called("figure", TRUE)
    /\ lastCall' = [op |-> "Figure", args |-> <<>>]
    /\ UNCHANGED <<pc, df, region, currentCpt, artifact, Concurrent>>

ApiBasemap ==
    /\ ApiReady
    /\ fig # NoFig
    /\ LET r == FigBasemap(fig, ApiRegion)
       IN /\ fig' = r.value
          /\ lastErr' = r.err
          /\ calls' = Called("basemap", r.err = "ok")
    /\ lastCall' = [op |-> "basemap", args |-> <<ApiRegion>>]
    /\ UNCHANGED <<pc, df, region, currentCpt, artifact, Concurrent>>

ApiMakecpt ==
    /\ ApiReady
    /\ \E series \in ApiSeries :
         LET r == MakeCpt("inferno", series, Len(calls) + 1)
         IN /\ currentCpt' = IF r.err = "ok" THEN r.value ELSE currentCpt
            /\ lastErr' = r.err
            /\ calls' = Called("makecpt", r.err = "ok")
            /\ lastCall' = [op |-> "makecpt", args |-> <<series>>]
    /\ UNCHANGED <<pc, df, region, fig, artifact, Concurrent>>

ApiPlot ==
    /\ ApiReady
    /\ fig # NoFig
    /\ \E x \in ApiVectors, y \in ApiVectors, sizes \in ApiVectors,
          color \in ApiVectors, cmap \in BOOLEAN :
         LET r == FigPlot(fig, x, y, sizes, color, cmap, currentCpt)
         IN /\ fig' = r.value
            /\ lastErr' = r.err
            /\ calls' = Called("plot", r.err = "ok")
            /\ lastCall' = [op |-> "plot", args |-> <<x, y, sizes, color>>]
    /\ UNCHANGED <<pc, df, region, currentCpt, artifact, Concurrent>>

ApiShow ==
    /\ ApiReady
    /\ fig # NoFig
    /\ LET r == FigShow(fig)
       IN /\ fig' = r.value
          /\ artifact' = IF r.err = "ok" THEN r.out ELSE artifact
          /\ lastErr' = r.err
          /\ calls' = Called("show", r.err = "ok")
    /\ lastCall' = [op |-> "show", args |-> <<>>]
    /\ UNCHANGED <<pc, df, region, currentCpt, Concurrent>>

\* the flushed session is destroyed
ApiClose ==
    /\ pc = "api"
    /\ fig.state = "Finalized"
    /\ fig' = FigClose(fig)
    /\ UNCHANGED <<pc, df, region, currentCpt, artifact, lastCall, lastErr, calls, Concurrent>>

ApiInit ==
    /\ pc = "api"
    /\ df = NoData
    /\ region = NoRegion
    /\ fig = NoFig
    /\ currentCpt = NoCpt
    /\ artifact = NoArtifact
    /\ lastCall = NoCall
    /\ lastErr = "ok"
    /\ calls = <<>>
    /\ rpc = <<>>
    /\ rfig = <<>>

ApiNext ==
    \/ ApiFigure
    \/ ApiBasemap
    \/ ApiMakecpt
    \/ ApiPlot
    \/ ApiShow
    \/ ApiClose

ApiSpec == ApiInit /\ [][ApiNext]_vars

(* ------------------------- info and makecpt on their own --------------- *)
InfoTables ==
    SeqsUpTo((-MaxVal .. MaxVal) \X (-MaxVal .. MaxVal), InfoRows) \ {<<>>}

InfoSpacings == (1 .. MaxSpacing) \X (1 .. MaxSpacing)

CptSeries == (0 .. MaxStop) \X (0 .. MaxStop) \X (0 .. MaxStep)

\* a call of info or makecpt about to be made, its arguments chosen
PendingInit ==
    /\ \/ /\ pc = "call-info"
          /\ \E t \in InfoTables, sp \in InfoSpacings :
               lastCall = [op |-> "info", args |-> <<t, sp>>]
       \/ /\ pc = "call-makecpt"
          /\ \E series \in CptSeries :
               lastCall = [op |-> "makecpt", args |-> <<series>>]
    /\ df = NoData
    /\ region = NoRegion
    /\ fig = NoFig
    /\ currentCpt = NoCpt
    /\ artifact = NoArtifact
    /\ lastErr = "ok"
    /\ calls = <<>>
    /\ rpc = <<>>
    /\ rfig = <<>>

CallInfo ==
    /\ pc = "call-info"
    /\ LET r == Info(lastCall.args[1], lastCall.args[2])
       IN /\ region' = r.value
          /\ lastErr' = r.err
          /\ calls' = Called("region", r.err = "ok")
    /\ pc' = "returned"
    /\ UNCHANGED <<df, fig, currentCpt, artifact, lastCall, Concurrent>>

CallMakecpt ==
    /\ pc = "call-makecpt"
    /\ LET r == MakeCpt("inferno", lastCall.args[1], Len(calls) + 1)
       IN /\ currentCpt' = IF r.err = "ok" THEN r.value ELSE currentCpt
          /\ lastErr' = r.err
          /\ calls' = Called("makecpt", r.err = "ok")
    /\ pc' = "returned"
    /\ UNCHANGED <<df, region, fig, artifact, lastCall, Concurrent>>

PendingNext ==
    \/ CallInfo
    \/ CallMakecpt

(* ------------- two runs of the script's drawing part in one process ---- *)
Runs == {"A", "B"}

\* the table both runs draw: one row of each species
SharedTable ==
    [cols |-> AllColumns,
     rows |-> << CHOOSE p \in Penguins : p.species = "Adelie",
                 CHOOSE p \in Penguins : p.species = "Chinstrap",
                 CHOOSE p \in Penguins : p.bill_length_mm = 596 >>]

\* the statements a run executes: from fig = pygmt.Figure() on
FirstDrawing == Position("figure")

At(r, step) == rpc[r] = step

CalledBy(r, op, ok) == Append(calls, [op |-> op, ok |-> ok, by |-> r])

Sequential == <<pc, df, region, fig, lastCall, lastErr>>

RunFigure(r) ==
    /\ At(r, "figure")
    /\ rfig' = [rfig EXCEPT ![r] = NewFigure]
    /\ rpc' = [rpc EXCEPT ![r] = After("figure", TRUE)]
    /\ calls' = CalledBy(r, "figure", TRUE)
    /\ UNCHANGED <<currentCpt, artifact, Sequential>>

RunBasemap(r) ==
    /\ At(r, "basemap")
    /\ LET res == FigBasemap(rfig[r], Info(XYTable(SharedTable), Spacing).value)
       IN /\ rfig' = [rfig EXCEPT ![r] = res.value]
          /\ rpc' = [rpc EXCEPT ![r] = After("basemap", res.err = "ok")]
          /\ calls' = CalledBy(r, "basemap", res.err = "ok")
    /\ UNCHANGED <<currentCpt, artifact, Sequential>>

\* makecpt writes the one colormap binding of the process
RunMakecpt(r) ==
    /\ At(r, "makecpt")
    /\ LET res == MakeCpt("inferno", Series, Len(calls) + 1)
       IN /\ currentCpt' = IF res.err = "ok" THEN res.value ELSE currentCpt
          /\ rpc' = [rpc EXCEPT ![r] = After("makecpt", res.err = "ok")]
          /\ calls' = CalledBy(r, "makecpt", res.err = "ok")
    /\ UNCHANGED <<rfig, artifact, Sequential>>

\* plot with cmap=True reads that binding
RunPlot(r) ==
    /\ At(r, "plot")
    /\ LET a == PlotArgs(SharedTable)
           res == FigPlot(rfig[r], a[1], a[2], a[3], a[4], TRUE, currentCpt)
       IN /\ rfig' = [rfig EXCEPT ![r] = res.value]
          /\ rpc' = [rpc EXCEPT ![r] = After("plot", res.err = "ok")]
          /\ calls' = CalledBy(r, "plot", res.err = "ok")
    /\ UNCHANGED <<currentCpt, artifact, Sequential>>

RunShow(r) ==
    /\ At(r, "show")
    /\ LET res == FigShow(rfig[r])
       IN /\ rfig' = [rfig EXCEPT ![r] = res.value]
          /\ artifact' = IF res.err = "ok" THEN res.out ELSE artifact
          /\ rpc' = [rpc EXCEPT ![r] = After("show", res.err = "ok")]
          /\ calls' = CalledBy(r, "show", res.err = "ok")
    /\ UNCHANGED <<currentCpt, Sequential>>

ConcInit ==
    /\ pc = "threads"
    /\ df = SharedTable
    /\ region = NoRegion
    /\ fig = NoFig
    /\ currentCpt = NoCpt
    /\ artifact = NoArtifact
    /\ lastCall = NoCall
    /\ lastErr = "ok"
    /\ calls = <<>>
    /\ rpc = [r \in Runs |-> ScriptOrder[FirstDrawing]]
    /\ rfig = [r \in Runs |-> NoFig]

ConcNext ==
    \E r \in Runs :
        \/ RunFigure(r)
        \/ RunBasemap(r)
        \/ RunMakecpt(r)
        \/ RunPlot(r)
        \/ RunShow(r)

ConcSpec == ConcInit /\ [][ConcNext]_vars

(* ------------------------------ every use ------------------------------ *)
Init ==
    \/ ScriptInit
    \/ ApiInit
    \/ PendingInit

Next ==
    \/ ScriptNext
    \/ ApiNext
    \/ PendingNext

Spec == Init /\ [][Next]_vars

(* ======================= properties of the program ====================== *)
Last(seq) == seq[Len(seq)]

\* the script is running, or has ended
InScript == pc \in Range(ScriptOrder) \cup {"exit", "done", "aborted"}

\* this step made the library call op
Calls(op) == Len(calls') = Len(calls) + 1 /\ lastCall'.op = op

\* lo and hi are the multiples of inc that enclose the values most tightly
RoundedOutward(lo, hi, values, inc) ==
    /\ lo % inc = 0 /\ hi % inc = 0
    /\ \A v \in values : lo <= v /\ v <= hi
    /\ \E v \in values : v < lo + inc
    /\ \E v \in values : hi - inc < v

InfoReturned == lastCall.op = "info" /\ pc # "call-info" /\ lastErr = "ok"

\* C1: for a non-empty table and positive spacings, info returns
\* [xmin', xmax', ymin', ymax'] with xmin' the largest multiple of sx <= min(x)
\* and xmax' the smallest multiple of sx >= max(x), the same for y and sy, so
\* that every point lies inside; in the script every plotted point (bill
\* length, bill depth) lies inside the region handed to basemap.
C1_RegionRoundsOutward ==
    /\ InfoReturned =>
         LET t == lastCall.args[1]
             sp == lastCall.args[2]
         IN /\ Len(region) = 4
            /\ RoundedOutward(region[1], region[2], Range(Column(t, 1)), sp[1])
            /\ RoundedOutward(region[3], region[4], Range(Column(t, 2)), sp[2])
    /\ InScript /\ region # NoRegion =>
         \A i \in 1..Len(df.rows) :
            /\ region[1] <= df.rows[i].bill_length_mm
            /\ df.rows[i].bill_length_mm <= region[2]
            /\ region[3] <= df.rows[i].bill_depth_mm
            /\ df.rows[i].bill_depth_mm <= region[4]

\* bill lengths from 32.1 to 59.6 with spacing 3 give 30.0 and 60.0
C1_Witness ==
    /\ InfoReturned
    /\ {321, 596} \subseteq Range(Column(lastCall.args[1], 1))
    /\ lastCall.args[2][1] = 30
    /\ region[1] = 300 /\ region[2] = 600

LegalMove(from, to) ==
    \/ from = to
    \/ <<from, to>> \in { <<"None", "Created">>, <<"Created", "Accumulating">>,
                          <<"Accumulating", "Finalized">>, <<"Finalized", "Closed">> }

\* C2: a session only moves Created -> Accumulating -> Finalized -> Closed,
\* and once show has finalized it no basemap or plot is accepted: the call
\* fails and the command log stays as it was.
C2_NoDrawAfterFinalize ==
    [][ /\ LegalMove(fig.state, fig'.state)
        /\ fig.state \in {"Finalized", "Closed"} =>
             /\ fig'.log = fig.log
             /\ fig'.state # "Accumulating"
             /\ (Calls("basemap") \/ Calls("plot")) => lastErr' # "ok" ]_vars

\* a plot was tried on a finalized session and refused
C2_Witness ==
    /\ fig.state = "Finalized"
    /\ lastCall.op = "plot"
    /\ lastErr = "session-finalized"
    /\ Len(lastCall.args[1]) = Len(lastCall.args[3])

SameLengths(a) == \A i \in 1..Len(a) : Len(a[i]) = Len(a[1])

\* C3: a plot call whose x, y, sizes and color do not all have the same length
\* fails with a shape-mismatch error and leaves the session as it was; with
\* equal lengths N an accepting session's log grows by one draw of N symbols.
C3_PlotShapeChecked ==
    [][ Calls("plot") =>
          IF ~SameLengths(lastCall'.args)
          THEN lastErr' = "shape-mismatch" /\ fig' = fig
          ELSE Accepting(fig) =>
                 /\ lastErr' = "ok"
                 /\ Len(fig'.log) = Len(fig.log) + 1
                 /\ SubSeq(fig'.log, 1, Len(fig.log)) = fig.log
                 /\ Last(fig'.log).op = "plot"
                 /\ Last(fig'.log).n = Len(lastCall'.args[1]) ]_vars

\* x is longer than sizes: the call failed and drew nothing
C3_Witness ==
    /\ lastCall.op = "plot"
    /\ Len(lastCall.args[1]) > Len(lastCall.args[3])
    /\ lastErr = "shape-mismatch"
    /\ fig.state = "Accumulating"

\* C4: show on a session with no drawing operation fails with an empty-canvas
\* error and emits nothing; show succeeds only after at least one draw, as in
\* the script, where basemap and plot precede show.
C4_EmptyShowFails ==
    [][ /\ Calls("show") /\ fig.log = <<>> =>
             /\ lastErr' = "empty-canvas"
             /\ artifact' = artifact
             /\ fig' = fig
        /\ Calls("show") /\ lastErr' = "ok" => fig.log # <<>>
        /\ artifact'.emitted => artifact'.content # <<>>
        /\ InScript /\ pc' = "show" =>
             [i \in 1..Len(fig'.log) |-> fig'.log[i].op] = <<"basemap", "plot">> ]_vars

\* show was called on a fresh session
C4_Witness ==
    /\ lastCall.op = "show"
    /\ lastErr = "empty-canvas"
    /\ fig = NewFigure
    /\ ~artifact.emitted

MakecptReturned == lastCall.op = "makecpt" /\ pc # "call-makecpt" /\ lastErr = "ok"

\* C5: for a series (start, stop, step) with stop > start and step > 0 the
\* colormap has exactly ceil((stop - start) / step) bins, indexed from 0; the
\* script's series (0, 3, 1) gives 3 bins, indexed 0, 1, 2.
C5_BinCount ==
    /\ MakecptReturned =>
         LET series == lastCall.args[1]
             span == series[2] - series[1]
             n == Len(currentCpt.bins)
         IN /\ series[2] > series[1] /\ series[3] > 0
            /\ currentCpt.series = series
            /\ n * series[3] >= span
            /\ (n - 1) * series[3] < span
            /\ CptIndices(currentCpt) = 0 .. (n - 1)
    /\ lastCall.op = "makecpt" /\ pc # "call-makecpt" /\ lastErr # "ok" =>
         lastCall.args[1][2] <= lastCall.args[1][1] \/ lastCall.args[1][3] <= 0
    /\ InScript /\ currentCpt # NoCpt =>
         /\ Len(currentCpt.bins) = 3
         /\ CptIndices(currentCpt) = {0, 1, 2}

\* a series whose span is no multiple of its step: the last bin is partial
C5_Witness ==
    /\ MakecptReturned
    /\ lastCall.args[1] = <<1, 4, 2>>
    /\ Len(currentCpt.bins) = 2

\* the script's plot call has drawn
ScriptPlotted == InScript /\ fig.log # <<>> /\ Last(fig.log).op = "plot"

SpeciesColumn == Column(df.rows, "species")

\* C6, as stated: at the plot call the category codes form the dense range
\* [0, N), N the number of distinct categories, the colormap covers exactly
\* [0, N), and every colour index handed to plot is a colormap index.
C6_DomainsAlwaysMatch ==
    ScriptPlotted =>
        LET N == Cardinality(Categories(SpeciesColumn))
            codes == Range(Last(fig.log).color)
        IN /\ codes = 0 .. (N - 1)
           /\ CptIndices(Last(fig.log).cpt) = 0 .. (N - 1)
           /\ codes \subseteq CptIndices(Last(fig.log).cpt)

\* C6, amended: at the plot call the colormap covers exactly [0, 3), whatever
\* the table; a species present gets its rank among the species present, so
\* the codes are the dense range [0, N) when no species is missing, and a
\* missing species gets -1; when the table has exactly 3 distinct species
\* and no missing one, the codes' domain is the colormap's and every colour
\* index is a colormap index.
C6_DomainsMatchForThreeSpecies ==
    ScriptPlotted =>
        LET N == Cardinality(Categories(SpeciesColumn))
            color == Last(fig.log).color
            codes == Range(color)
            indices == CptIndices(Last(fig.log).cpt)
        IN /\ indices = {0, 1, 2}
           /\ Len(color) = Len(df.rows)
           /\ \A i \in 1..Len(color) :
                IF SpeciesColumn[i] = NA THEN color[i] = -1
                ELSE color[i] \in 0 .. (N - 1)
           /\ \A i, j \in 1..Len(color) :
                (color[i] = color[j]) = (SpeciesColumn[i] = SpeciesColumn[j])
           /\ NA \notin Range(SpeciesColumn) => codes = 0 .. (N - 1)
           /\ N = 3 /\ NA \notin Range(SpeciesColumn) =>
                codes = indices /\ \A i \in 1..Len(color) : color[i] \in indices

\* the three penguin species have been plotted
C6_Witness ==
    /\ ScriptPlotted
    /\ Categories(SpeciesColumn) = {"Adelie", "Chinstrap", "Gentoo"}
    /\ Range(Last(fig.log).color) = {0, 1, 2}
    /\ Last(fig.log).cpt.series = <<0, 3, 1>>

\* C7: an error raised by a step of the script ends the run at that step: no
\* later step runs, no step runs twice, nothing is emitted; the figure is
\* emitted only when every step before show, and show, succeeded.
C7_ErrorsAreFatal ==
    [][ InScript =>
          /\ pc # "aborted"
          /\ lastErr' # "ok" => pc' = "aborted" /\ artifact' = artifact
          /\ pc' = "aborted" => lastErr' # "ok" /\ ~Last(calls').ok
          /\ \A i, j \in 1..Len(calls') : calls'[i].op = calls'[j].op => i = j
          /\ \A i \in 1..Len(calls) : calls'[i] = calls[i] /\ calls[i].ok
          /\ artifact'.emitted =>
                /\ \A i \in 1..Len(calls') : calls'[i].ok
                /\ Len(calls') = Len(ScriptOrder) ]_vars

\* the run ended at the region step, with the later steps never run
C7_Witness ==
    /\ pc = "aborted"
    /\ lastErr = "data-error"
    /\ [i \in 1..Len(calls) |-> calls[i].op] = <<"load", "region">>
    /\ fig = NoFig
    /\ ~artifact.emitted

\* the calls that built a colormap, by their place in the history
Built(history) == {i \in 1..Len(history) : history[i].op = "makecpt" /\ history[i].ok}

\* the calls that drew, in order: the k-th entry of the log is the k-th of them
RECURSIVE Drew(_)
Drew(history) ==
    IF history = <<>> THEN <<>>
    ELSE LET before == SubSeq(history, 1, Len(history) - 1)
         IN IF Last(history).op \in {"basemap", "plot"} /\ Last(history).ok
            THEN Append(Drew(before), Len(history))
            ELSE Drew(before)

\* the colormap built most recently before call number at (0: none yet)
CurrentAt(history, at) == Max({0} \cup {i \in Built(history) : i < at})

\* C8: makecpt sets or replaces the current colormap, and a plot with
\* cmap=True draws with the colormap set most recently before it; the script
\* builds its colormap before the plot that uses it, so that plot draws with
\* the colormap of series (0, 3, 1).
C8_PlotUsesLatestCpt ==
    /\ pc # "threads" =>
         /\ currentCpt.id = CurrentAt(calls, Len(calls) + 1)
         /\ (currentCpt = NoCpt) = (Built(calls) = {})
         /\ Len(Drew(calls)) = Len(fig.log)
         /\ \A k \in 1..Len(fig.log) :
              /\ fig.log[k].op = calls[Drew(calls)[k]].op
              /\ fig.log[k].cmap => fig.log[k].cpt.id = CurrentAt(calls, Drew(calls)[k])
              /\ fig.log[k].cmap => (fig.log[k].cpt = NoCpt) = (fig.log[k].cpt.id = 0)
    /\ MakecptReturned => currentCpt.series = lastCall.args[1]
    /\ ScriptPlotted =>
         /\ Last(fig.log).cmap
         /\ Last(fig.log).cpt # NoCpt
         /\ Last(fig.log).cpt.series = <<0, 3, 1>>
         /\ calls[Last(fig.log).cpt.id].op = "makecpt"

\* a colormap was built, then replaced, and the plot drew with the second
C8_Witness ==
    /\ Cardinality(Built(calls)) = 2
    /\ fig.log # <<>>
    /\ Last(fig.log).cmap
    /\ Last(fig.log).cpt.id = Max(Built(calls))
    /\ Last(fig.log).cpt.series = <<0, 2, 1>>

Ops(history) == [i \in 1..Len(history) |-> history[i].op]

TheSteps == <<"load", "region", "figure", "basemap", "makecpt", "plot", "show">>

\* C9: the steps of the script run one after the other, each at most once, in
\* the order load, region, figure, basemap, makecpt, plot, show; a run that
\* succeeds has run each exactly once, the basemap was drawn with the derived
\* region, and the command log at show is [basemap, plot].
C9_StrictlySequential ==
    InScript =>
        /\ Len(calls) <= Len(TheSteps)
        /\ Ops(calls) = SubSeq(TheSteps, 1, Len(calls))
        /\ pc \notin {"exit", "done", "aborted"} =>
              Len(calls) < Len(TheSteps) /\ pc = TheSteps[Len(calls) + 1]
        /\ pc \in {"exit", "done"} =>
              /\ Ops(calls) = TheSteps
              /\ \A i \in 1..Len(calls) : calls[i].ok
              /\ [i \in 1..Len(fig.log) |-> fig.log[i].op] = <<"basemap", "plot">>
              /\ fig.log[1].region = region /\ region # NoRegion
              /\ fig.log[2].n = Len(df.rows)
              /\ artifact = [emitted |-> TRUE, content |-> fig.log]

\* a run that succeeded
C9_Witness ==
    /\ pc = "done"
    /\ artifact.emitted
    /\ fig.state = "Closed"
    /\ Len(calls) = 7

\* the plot call of run r, and the makecpt call of run r, in the history
CallOf(r, op) == {i \in 1..Len(calls) : calls[i].by = r /\ calls[i].op = op}

\* another run built a colormap between r's makecpt and r's plot
Interleaved(r) ==
    \E i \in 1..Len(calls) :
        /\ calls[i].op = "makecpt" /\ calls[i].by # r
        /\ \A m \in CallOf(r, "makecpt") : m < i
        /\ \A q \in CallOf(r, "plot") : i < q

PlottedBy(r) == rfig[r].log # <<>> /\ Last(rfig[r].log).op = "plot"

\* C10: with two runs in one process sharing the current colormap, a run
\* whose makecpt and plot are not separated by the other run's makecpt draws
\* with the colormap it built itself, and a run whose makecpt and plot are
\* separated by the other's makecpt draws with the other run's colormap.
C10_SharedBindingCrosses ==
    pc = "threads" =>
        \A r \in Runs :
            PlottedBy(r) =>
                LET used == Last(rfig[r].log).cpt
                IN /\ used # NoCpt
                   /\ used.id \in Built(calls)
                   /\ (calls[used.id].by = r) = ~Interleaved(r)

\* run A drew with the colormap that run B built
C10_Witness ==
    /\ pc = "threads"
    /\ PlottedBy("A")
    /\ Last(rfig["A"].log).cpt.id \in Built(calls)
    /\ calls[Last(rfig["A"].log).cpt.id].by = "B"
====
